---- MODULE Spec2Model ----
(***************************************************************************)
(* Model of crates/primitives/src/integer_list.rs: IntegerList, a wrapper  *)
(* over an Elias-Fano codec (sucds::EliasFano).  The wrapper's operations  *)
(* are translated from the source; the codec itself lives in an external   *)
(* crate and is modelled from section 4.2 of the design document.          *)
(***************************************************************************)
EXTENDS Integers, Sequences, FiniteSets, TLC

\* Bounds of the model: longest caller-supplied sequence and largest integer,
\* and the same two for the operands of intersection.
MaxLen == 3
MaxVal == 7
MaxMergeLen == 3
MaxMergeVal == 3

Values == 0..MaxVal
Inputs == UNION {[1..n -> Values] : n \in 0..MaxLen}
MergeInputs == UNION {[1..n -> 0..MaxMergeVal] : n \in 0..MaxMergeLen}

IsSorted(s) == \A i \in 1..(Len(s) - 1) : s[i] <= s[i + 1]
ValidInput(s) == s # <<>> /\ IsSorted(s)

RECURSIVE Pow2(_)
Pow2(k) == IF k = 0 THEN 1 ELSE 2 * Pow2(k - 1)

RECURSIVE Log2Floor(_)
Log2Floor(x) == IF x <= 1 THEN 0 ELSE 1 + Log2Floor(x \div 2)

RECURSIVE Zeros(_)
Zeros(k) == IF k <= 0 THEN <<>> ELSE <<0>> \o Zeros(k - 1)

(***************************************************************************)
(* Codec (sucds::EliasFano), section 4.2.                                  *)
(***************************************************************************)

\* The codec with no element: what #[derive(Default)] builds field by field.
EmptyCodec ==
    [count |-> 0, max_value |-> 0, low_width |-> 0,
     low_array |-> <<>>, high_bits |-> <<>>]

CodecOk(c) == [ok |-> TRUE, val |-> c, err |-> "none"]
CodecErr(e) == [ok |-> FALSE, val |-> EmptyCodec, err |-> e]

low_width_of(n, U) == IF n > U THEN 0 ELSE Log2Floor(U \div n)

\* (high - previous_high) zero bits and one set bit per element.
RECURSIVE UnaryHigh(_, _, _)
UnaryHigh(highs, i, prev) ==
    IF i > Len(highs) THEN <<>>
    ELSE Zeros(highs[i] - prev) \o <<1>> \o UnaryHigh(highs, i + 1, highs[i])

\* Codec::build / EliasFano::from_ints
build(values) ==
    IF values = <<>> \/ ~IsSorted(values) THEN CodecErr("EmptyOrUnsorted")
    ELSE LET n == Len(values)
             U == values[n]
             w == low_width_of(n, U)
             highs == [i \in 1..n |-> values[i] \div Pow2(w)]
             lows == [i \in 1..n |-> values[i] % Pow2(w)]
             bits == UnaryHigh(highs, 1, 0)
             total == n + (U \div Pow2(w)) + 1
         IN CodecOk([count |-> n, max_value |-> U, low_width |-> w,
                     low_array |-> lows,
                     high_bits |-> bits \o Zeros(total - Len(bits))])

\* rank1(i): set bits in positions [0, i)
rank1(bits, i) == Cardinality({p \in 0..(i - 1) : bits[p + 1] = 1})

\* select1(k): position of the (k+1)-th set bit
select1(bits, k) ==
    CHOOSE p \in 0..(Len(bits) - 1) : bits[p + 1] = 1 /\ rank1(bits, p) = k

\* get(i) = (high << low_width) | low, high = select1(i) - i
get(c, i) ==
    LET p == select1(c.high_bits, i)
    IN (p - i) * Pow2(c.low_width) + c.low_array[i + 1]

len(c) == c.count

\* iter(start) collected: the decoded values from index start on
iter(c, start) ==
    IF start >= len(c) THEN <<>>
    ELSE [j \in 1..(len(c) - start) |-> get(c, start + j - 1)]

\* serialize_into: header, then the low array, then the high bits
serialize_into(c) ==
    <<c.count, c.max_value, c.low_width, Len(c.low_array), Len(c.high_bits)>>
        \o c.low_array \o c.high_bits

HeaderLen == Len(serialize_into(EmptyCodec))

\* deserialize_from: validates the header against the bytes that follow
deserialize_from(data) ==
    IF Len(data) < HeaderLen THEN CodecErr("Truncated")
    ELSE LET n == data[1]
             U == data[2]
             w == data[3]
             ll == data[4]
             hl == data[5]
         IN IF n = 0 \/ ll # n \/ hl # n + (U \div Pow2(w)) + 1
            THEN CodecErr("Malformed")
            ELSE IF Len(data) < HeaderLen + ll + hl THEN CodecErr("Truncated")
            ELSE CodecOk([count |-> n, max_value |-> U, low_width |-> w,
                          low_array |-> SubSeq(data, HeaderLen + 1, HeaderLen + ll),
                          high_bits |-> SubSeq(data, HeaderLen + ll + 1,
                                               HeaderLen + ll + hl)])

(***************************************************************************)
(* IntegerList: the wrapper, translated from integer_list.rs.  An          *)
(* IntegerList is the tuple struct around one codec, so a list value is    *)
(* the codec record, and the derived equality is record equality.          *)
(***************************************************************************)

\* What a call hands back: Ok/Err of a Result, Some/None of an Option, or a panic.
Returned(op, kind, val, err) == [op |-> op, kind |-> kind, val |-> val, err |-> err]

NoReturn == Returned("none", "none", EmptyCodec, "none")

\* #[derive(Default)] on IntegerList(pub EliasFano)
Default == EmptyCodec

RECURSIVE Dedup(_)
Dedup(s) ==
    IF Len(s) <= 1 THEN s
    ELSE IF s[1] = s[2] THEN Dedup(Tail(s))
    ELSE <<s[1]>> \o Dedup(Tail(s))

\* new, were it to keep one copy of each repeated value
new_dedup(list) ==
    LET r == build(Dedup(list))
    IN IF r.ok THEN Returned("new", "Ok", r.val, "none")
       ELSE Returned("new", "Err", EmptyCodec, "InvalidInput")

\* new, were it to unwrap the codec's result as new_pre_sorted does
new_expect(list) ==
    LET r == build(list)
    IN IF r.ok THEN Returned("new", "Ok", r.val, "none")
       ELSE Returned("new", "Panic", EmptyCodec, "could not create list.")

\* IntegerList::new: from_ints(..).map_err(|_| InvalidInput)
new(list) ==
    LET r == build(list)
    IN IF r.ok THEN Returned("new", "Ok", r.val, "none")
       ELSE Returned("new", "Err", EmptyCodec, "InvalidInput")

\* IntegerList::new_pre_sorted: from_ints(..).expect(..)
new_pre_sorted(list) ==
    LET r == build(list)
    IN IF r.ok THEN Returned("new_pre_sorted", "Ok", r.val, "none")
       ELSE Returned("new_pre_sorted", "Panic", EmptyCodec,
                     "IntegerList must be pre-sorted and non-empty.")

\* From<Vec<$w>>: widen every element to usize, from_ints(..).expect(..)
From_Vec(v) ==
    LET w == [i \in 1..Len(v) |-> v[i]]
        r == build(w)
    IN IF r.ok THEN Returned("from", "Ok", r.val, "none")
       ELSE Returned("from", "Panic", EmptyCodec, "could not create list.")

\* to_bytes, were it to leave the last word of the encoding out
to_bytes_short(x) ==
    LET b == serialize_into(x) IN SubSeq(b, 1, Len(b) - 1)

\* IntegerList::to_bytes: serialize_into a fresh Vec
to_bytes(x) == serialize_into(x)

\* IntegerList::from_bytes: deserialize_from(..).map_err(|_| FailedDeserialize)
from_bytes(data) ==
    LET r == deserialize_from(data)
    IN IF r.ok THEN Returned("from_bytes", "Ok", r.val, "none")
       ELSE Returned("from_bytes", "Err", EmptyCodec, "FailedDeserialize")

\* serialize, were it to start the iteration at index 1
serialize_skip_first(x) == [hint |-> len(x), elems |-> iter(x, 1)]

\* Serialize for IntegerList: a sequence of len() elements, those of iter(0)
serialize(x) == [hint |-> len(x), elems |-> iter(x, 0)]

\* IntegerListVisitor::visit_seq: collect the elements, then IntegerList::new
visit_seq(seq) ==
    LET r == new(seq)
    IN IF r.kind = "Ok" THEN Returned("deserialize", "Ok", r.val, "none")
       ELSE Returned("deserialize", "Err", EmptyCodec, "invalid_value")

\* Deserialize for IntegerList, driven by a self-describing format (serde_json)
deserialize(seq) == visit_seq(seq)

\* Option<usize>
None == [some |-> FALSE, v |-> 0]
Some(v) == [some |-> TRUE, v |-> v]

\* Iterator::next of iter(0) standing at index pos
iter_next(x, pos) == IF pos < len(x) THEN Some(get(x, pos)) ELSE None

\* intersection, lines 77-80: the empty result and the two heads
intersection_init(this, that) ==
    [result |-> <<>>, this_pos |-> 0, other_pos |-> 0,
     maybe_this_int |-> iter_next(this, 0),
     maybe_other_int |-> iter_next(that, 0)]

\* the condition of the while let
loop_cond(s) == s.maybe_this_int.some /\ s.maybe_other_int.some

\* the merge step with the bodies of the Less and Greater arms exchanged
intersection_step_swapped(this, that, s) ==
    LET this_int == s.maybe_this_int.v
        other_int == s.maybe_other_int.v
    IN IF this_int = other_int
       THEN [s EXCEPT !.result = Append(@, this_int),
                      !.this_pos = @ + 1, !.other_pos = @ + 1,
                      !.maybe_this_int = iter_next(this, s.this_pos + 1),
                      !.maybe_other_int = iter_next(that, s.other_pos + 1)]
       ELSE IF this_int < other_int
       THEN [s EXCEPT !.other_pos = @ + 1,
                      !.maybe_other_int = iter_next(that, s.other_pos + 1)]
       ELSE [s EXCEPT !.this_pos = @ + 1,
                      !.maybe_this_int = iter_next(this, s.this_pos + 1)]

\* the merge step, were the Less arm to emit the other side's value as well
intersection_step_push_other(this, that, s) ==
    LET this_int == s.maybe_this_int.v
        other_int == s.maybe_other_int.v
    IN IF this_int = other_int
       THEN [s EXCEPT !.result = Append(@, this_int),
                      !.this_pos = @ + 1, !.other_pos = @ + 1,
                      !.maybe_this_int = iter_next(this, s.this_pos + 1),
                      !.maybe_other_int = iter_next(that, s.other_pos + 1)]
       ELSE IF this_int < other_int
       THEN [s EXCEPT !.result = Append(@, other_int),
                      !.this_pos = @ + 1,
                      !.maybe_this_int = iter_next(this, s.this_pos + 1)]
       ELSE [s EXCEPT !.other_pos = @ + 1,
                      !.maybe_other_int = iter_next(that, s.other_pos + 1)]

\* the merge step, were the Less arm to forget this_iter.next()
intersection_step_stuck(this, that, s) ==
    LET this_int == s.maybe_this_int.v
        other_int == s.maybe_other_int.v
    IN IF this_int = other_int
       THEN [s EXCEPT !.result = Append(@, this_int),
                      !.this_pos = @ + 1, !.other_pos = @ + 1,
                      !.maybe_this_int = iter_next(this, s.this_pos + 1),
                      !.maybe_other_int = iter_next(that, s.other_pos + 1)]
       ELSE IF this_int < other_int
       THEN s
       ELSE [s EXCEPT !.other_pos = @ + 1,
                      !.maybe_other_int = iter_next(that, s.other_pos + 1)]

\* intersection, lines 82-94: one iteration of the merge
intersection_step(this, that, s) ==
    LET this_int == s.maybe_this_int.v
        other_int == s.maybe_other_int.v
    IN IF this_int = other_int
       THEN [s EXCEPT !.result = Append(@, this_int),
                      !.this_pos = @ + 1, !.other_pos = @ + 1,
                      !.maybe_this_int = iter_next(this, s.this_pos + 1),
                      !.maybe_other_int = iter_next(that, s.other_pos + 1)]
       ELSE IF this_int < other_int
       THEN [s EXCEPT !.this_pos = @ + 1,
                      !.maybe_this_int = iter_next(this, s.this_pos + 1)]
       ELSE [s EXCEPT !.other_pos = @ + 1,
                      !.maybe_other_int = iter_next(that, s.other_pos + 1)]

\* the end of intersection without the is_empty test
intersection_end_unchecked(s) ==
    LET r == new_pre_sorted(s.result)
    IN IF r.kind = "Panic"
       THEN Returned("intersection", "Panic", EmptyCodec, r.err)
       ELSE Returned("intersection", "Some", r.val, "none")

\* intersection, lines 97-101: None, or Some(new_pre_sorted(result))
intersection_end(s) ==
    IF s.result = <<>> THEN Returned("intersection", "None", EmptyCodec, "none")
    ELSE LET r == new_pre_sorted(s.result)
         IN IF r.kind = "Panic"
            THEN Returned("intersection", "Panic", EmptyCodec, r.err)
            ELSE Returned("intersection", "Some", r.val, "none")

(***************************************************************************)
(* The state machine: a caller that makes one call after another.          *)
(***************************************************************************)

\* The lists a caller can hold: built by new from a valid input, or Default.
ValidLists == {new(S).val : S \in {T \in Inputs : ValidInput(T)}}
Lists == ValidLists \cup {Default}
MergeLists == {new(S).val : S \in {T \in MergeInputs : ValidInput(T)}} \cup {Default}

NoWire == [fmt |-> "none", bytes |-> <<>>, seq |-> serialize(EmptyCodec), intact |-> TRUE]
NoMerge == intersection_init(EmptyCodec, EmptyCodec)

VARIABLES
    pc,      \* "idle", "encoded", "loop", "returned", "panicked"
    self,    \* the receiver of the running call
    other,   \* the argument of intersection
    arg,     \* the caller-supplied sequence of the running call
    ret,     \* what the last call returned
    wire,    \* the encoded form between an encode and a decode
    merge,   \* the locals of intersection
    iters    \* iterations of the merge loop made so far

vars == <<pc, self, other, arg, ret, wire, merge, iters>>

Init ==
    /\ pc = "idle"
    /\ self = EmptyCodec
    /\ other = EmptyCodec
    /\ arg = <<>>
    /\ ret = NoReturn
    /\ wire = NoWire
    /\ merge = NoMerge
    /\ iters = 0

Finish(r) ==
    /\ ret' = r
    /\ pc' = IF r.kind = "Panic" THEN "panicked" ELSE "returned"

CallNew ==
    /\ pc = "idle"
    /\ \E S \in Inputs :
        /\ arg' = S
        /\ Finish(new(S))
        /\ UNCHANGED <<self, other, wire, merge, iters>>

CallNewPreSorted ==
    /\ pc = "idle"
    /\ \E S \in Inputs :
        /\ arg' = S
        /\ Finish(new_pre_sorted(S))
        /\ UNCHANGED <<self, other, wire, merge, iters>>

CallFrom ==
    /\ pc = "idle"
    /\ \E S \in Inputs :
        /\ arg' = S
        /\ Finish(From_Vec(S))
        /\ UNCHANGED <<self, other, wire, merge, iters>>

CallDefault ==
    /\ pc = "idle"
    /\ Finish(Returned("default", "Ok", Default, "none"))
    /\ UNCHANGED <<self, other, arg, wire, merge, iters>>

\* the serde decoder fed a caller-supplied sequence
CallDeserialize ==
    /\ pc = "idle"
    /\ \E S \in Inputs :
        /\ arg' = S
        /\ Finish(deserialize(S))
        /\ UNCHANGED <<self, other, wire, merge, iters>>

CallToBytes ==
    /\ pc = "idle"
    /\ \E x \in Lists :
        /\ self' = x
        /\ wire' = [NoWire EXCEPT !.fmt = "bytes", !.bytes = to_bytes(x)]
        /\ pc' = "encoded"
        /\ UNCHANGED <<other, arg, ret, merge, iters>>

\* bytes cut short in storage or on the network
Truncate ==
    /\ pc = "encoded"
    /\ wire.fmt = "bytes"
    /\ wire.intact
    /\ \E k \in 0..(Len(wire.bytes) - 1) :
        wire' = [wire EXCEPT !.bytes = SubSeq(@, 1, k), !.intact = FALSE]
    /\ UNCHANGED <<pc, self, other, arg, ret, merge, iters>>

CallFromBytes ==
    /\ pc = "encoded"
    /\ wire.fmt = "bytes"
    /\ Finish(from_bytes(wire.bytes))
    /\ UNCHANGED <<self, other, arg, wire, merge, iters>>

CallSerialize ==
    /\ pc = "idle"
    /\ \E x \in Lists :
        /\ self' = x
        /\ wire' = [NoWire EXCEPT !.fmt = "seq", !.seq = serialize(x)]
        /\ pc' = "encoded"
        /\ UNCHANGED <<other, arg, ret, merge, iters>>

CallDeserializeWire ==
    /\ pc = "encoded"
    /\ wire.fmt = "seq"
    /\ Finish(deserialize(wire.seq.elems))
    /\ UNCHANGED <<self, other, arg, wire, merge, iters>>

IntersectionStart ==
    /\ pc = "idle"
    /\ \E a \in MergeLists, b \in MergeLists :
        /\ self' = a
        /\ other' = b
        /\ merge' = intersection_init(a, b)
    /\ iters' = 0
    /\ pc' = "loop"
    /\ UNCHANGED <<arg, ret, wire>>

IntersectionStep ==
    /\ pc = "loop"
    /\ loop_cond(merge)
    /\ merge' = intersection_step(self, other, merge)
    /\ iters' = iters + 1
    /\ UNCHANGED <<pc, self, other, arg, ret, wire>>

IntersectionEnd ==
    /\ pc = "loop"
    /\ ~loop_cond(merge)
    /\ Finish(intersection_end(merge))
    /\ UNCHANGED <<self, other, arg, wire, merge, iters>>

\* the caller drops what the call left behind and goes on
Return ==
    /\ pc = "returned"
    /\ pc' = "idle"
    /\ self' = EmptyCodec
    /\ other' = EmptyCodec
    /\ arg' = <<>>
    /\ ret' = NoReturn
    /\ wire' = NoWire
    /\ merge' = NoMerge
    /\ iters' = 0

Next ==
    \/ CallNew
    \/ CallNewPreSorted
    \/ CallFrom
    \/ CallDefault
    \/ CallDeserialize
    \/ CallToBytes
    \/ Truncate
    \/ CallFromBytes
    \/ CallSerialize
    \/ CallDeserializeWire
    \/ IntersectionStart
    \/ IntersectionStep
    \/ IntersectionEnd
    \/ Return

Spec == Init /\ [][Next]_vars

\* The merge loop is straight-line code of one thread: once entered it runs on.
LiveSpec == Spec /\ WF_vars(IntersectionStep \/ IntersectionEnd)

(***************************************************************************)
(* Properties.                                                             *)
(***************************************************************************)

Occurrences(s, v) == Cardinality({i \in 1..Len(s) : s[i] = v})
Min(x, y) == IF x <= y THEN x ELSE y
Called(op) == pc \in {"returned", "panicked"} /\ ret.op = op
\* self and other are drawn from Lists: all of it but Default is built by new
BuiltByNew(x) == x # Default
ValidPair == BuiltByNew(self) /\ BuiltByNew(other)

\* C1: the list new(S) builds from a non-empty non-decreasing S decodes to S:
\* iter(0) yields len(S) values equal to S in order, and get(i) = S[i].
C1_NewDecodesToInput ==
    (Called("new") /\ ValidInput(arg)) =>
        /\ ret.kind = "Ok"
        /\ len(ret.val) = Len(arg)
        /\ iter(ret.val, 0) = arg
        /\ \A i \in 0..(Len(arg) - 1) : get(ret.val, i) = arg[i + 1]

C1_Witness ==
    /\ Called("new")
    /\ ret.kind = "Ok"
    /\ Len(arg) >= 2
    /\ arg[1] < arg[Len(arg)]
    /\ ret.val.low_width > 0

\* C2: from_bytes(to_bytes(x)) succeeds and returns a list equal to x, decoding
\* to the same sequence, for every x built by new from a valid sequence.
C2_BinaryRoundTrip ==
    (Called("from_bytes") /\ wire.intact /\ BuiltByNew(self)) =>
        /\ ret.kind = "Ok"
        /\ ret.val = self
        /\ iter(ret.val, 0) = iter(self, 0)

C2_Witness ==
    /\ Called("from_bytes")
    /\ wire.intact
    /\ ret.kind = "Ok"
    /\ len(self) >= 2
    /\ self.low_width > 0

\* C3: when a.intersection(b) is Some(r) for valid a and b, r is ascending and
\* every value occurs in r as often as the smaller of its counts in a and b.
C3_IntersectionIsMultisetMin ==
    (Called("intersection") /\ ValidPair /\ ret.kind = "Some") =>
        LET r == iter(ret.val, 0)
            a == iter(self, 0)
            b == iter(other, 0)
        IN /\ IsSorted(r)
           /\ \A v \in Values :
                  Occurrences(r, v) = Min(Occurrences(a, v), Occurrences(b, v))

\* duplicates of different multiplicity on the two sides
C3_Witness ==
    /\ Called("intersection")
    /\ ValidPair
    /\ ret.kind = "Some"
    /\ \E v \in Values :
           /\ Occurrences(iter(self, 0), v) >= 2
           /\ Occurrences(iter(other, 0), v) = 1
           /\ Occurrences(iter(ret.val, 0), v) = 1
    /\ len(ret.val) >= 2

CommonValue ==
    \E v \in Values :
        Occurrences(iter(self, 0), v) > 0 /\ Occurrences(iter(other, 0), v) > 0

\* C4: a.intersection(b) is None exactly when a and b share no value, and is
\* otherwise Some of a list of at least one integer; it neither fails nor
\* returns Some of an empty list.
C4_NoneIffDisjoint ==
    (Called("intersection") /\ ValidPair) =>
        /\ ret.kind \in {"None", "Some"}
        /\ (ret.kind = "None") <=> ~CommonValue
        /\ ret.kind = "Some" => len(ret.val) >= 1

C4_Witness ==
    /\ Called("intersection")
    /\ ValidPair
    /\ ret.kind = "None"
    /\ len(self) >= 2
    /\ len(other) >= 2

\* C5: new(S) is Err(InvalidInput) when S is empty or has an element smaller
\* than its predecessor, Ok for every other S, and never panics nor returns
\* FailedDeserialize.
C5_NewRejectsInvalidInput ==
    Called("new") =>
        /\ ret.kind # "Panic"
        /\ ret.err # "FailedDeserialize"
        /\ ValidInput(arg) => ret.kind = "Ok"
        /\ ~ValidInput(arg) => (ret.kind = "Err" /\ ret.err = "InvalidInput")

C5_Witness ==
    /\ Called("new")
    /\ ret.kind = "Err"
    /\ Len(arg) >= 2
    /\ arg[1] > arg[2]

\* C6: every way of building a list from caller-supplied data (new, the
\* From<Vec<_>> conversions, the serde decoder, from_bytes) returns a
\* recoverable error on an empty or non-monotone sequence and does not panic.
C6_EveryConstructorValidates ==
    /\ (Called("new") \/ Called("from") \/ Called("deserialize"))
           /\ wire.fmt = "none" /\ ~ValidInput(arg)
       => ret.kind = "Err"
    /\ Called("from_bytes") => ret.kind # "Panic"

\* C7: every IntegerList obtainable through the public interface, the derived
\* Default value included, holds at least one integer and decodes to a
\* non-decreasing sequence.
C7_NoEmptyList ==
    (pc = "returned" /\ ret.kind \in {"Ok", "Some"}) =>
        /\ len(ret.val) >= 1
        /\ IsSorted(iter(ret.val, 0))

C9_MergeResultSorted ==
    /\ (pc = "loop" /\ ValidPair) =>
           /\ IsSorted(merge.result)
           /\ \A i \in 1..Len(merge.result) :
                  /\ merge.maybe_this_int.some =>
                         merge.result[i] <= merge.maybe_this_int.v
                  /\ merge.maybe_other_int.some =>
                         merge.result[i] <= merge.maybe_other_int.v
    /\ (Called("intersection") /\ ValidPair) => ret.kind # "Panic"

C9_Witness ==
    /\ pc = "loop"
    /\ ValidPair
    /\ Len(merge.result) >= 2
    /\ merge.result[1] < merge.result[2]
    /\ loop_cond(merge)

Advanced(s, t) ==
    LET dthis == t.this_pos - s.this_pos
        dother == t.other_pos - s.other_pos
    IN IF s.maybe_this_int.v = s.maybe_other_int.v
       THEN dthis = 1 /\ dother = 1
       ELSE (dthis = 1 /\ dother = 0) \/ (dthis = 0 /\ dother = 1)

\* C10: every iteration of the merge advances both cursors on equality and
\* exactly one otherwise, the loop stops as soon as a stream is exhausted, it
\* makes at most len(self) + len(other) iterations, leaves self and other as
\* they were, and it ends.
C10_MergeTerminates ==
    /\ [][(pc = "loop" /\ pc' = "loop") =>
              (loop_cond(merge) /\ Advanced(merge, merge'))]_vars
    /\ [][pc = "loop" => (self' = self /\ other' = other)]_vars
    /\ [](pc = "loop" =>
              /\ iters <= len(self) + len(other)
              /\ merge.this_pos <= len(self)
              /\ merge.other_pos <= len(other)
              /\ merge.maybe_this_int.some <=> merge.this_pos < len(self)
              /\ merge.maybe_other_int.some <=> merge.other_pos < len(other))
    /\ (pc = "loop" ~> pc = "returned")

C10_Witness ==
    /\ pc = "returned"
    /\ ret.op = "intersection"
    /\ len(self) >= 2
    /\ len(other) >= 2
    /\ iters = len(self) + len(other) - 1
====
